---------------------------- MODULE Spec2Model ----------------------------
(***************************************************************************)
(* A model of backend/app.py, the TweetUp backend: an SQLite store with    *)
(* three tables (tweetbooks, tweets, settings), the Flask route handlers   *)
(* that read and write it, and one APScheduler BackgroundScheduler whose   *)
(* single job is re-derived from the settings row by update_scheduler.     *)
(*                                                                         *)
(* Threads.  The main thread runs the module body (init_db, then           *)
(* update_scheduler) and then serves; request threads 1..NumThreads run    *)
(* one handler at a time; the scheduler's worker thread runs               *)
(* show_tweet_notification when the job fires.  A step of the model is one *)
(* access to shared state (one SQL statement with its commit, or one call  *)
(* of the scheduler) together with the thread-local code around it.        *)
(***************************************************************************)
EXTENDS Integers, Sequences, FiniteSets, TLC

(***************************************************************************)
(* Bounds of the model.                                                    *)
(***************************************************************************)
NumThreads == 2      \* request threads serving concurrently
MaxClock == 1        \* CURRENT_TIMESTAMP runs over 0..MaxClock
MaxRestarts == 1     \* process restarts (the module body runs again)
MaxRows == 2         \* AUTOINCREMENT ids handed out per table by requests

MainThread == NumThreads + 1
JobThread == NumThreads + 2
RequestThreads == 1..NumThreads
AllThreads == 1..(NumThreads + 2)

(***************************************************************************)
(* Python values as they arrive in a JSON body or a query string: a tag    *)
(* and the value.  A body is a function from the keys it holds to values.  *)
(***************************************************************************)
PyNone == <<"none">>
PyStr(s) == <<"str", s>>
PyInt(i) == <<"int", i>>
PyBool(b) == <<"bool", b>>

\* bool(v) of Python: None, "", 0 and False are falsy.
Truthy(v) ==
    CASE v[1] = "none" -> FALSE
      [] v[1] = "str" -> v[2] /= ""
      [] v[1] = "int" -> v[2] /= 0
      [] v[1] = "bool" -> v[2]

\* dict.get(key) and dict.get(key, default)
EmptyDict == [k \in {} |-> PyNone]
DataGet(data, key) == IF key \in DOMAIN data THEN data[key] ELSE PyNone
DataGetDefault(data, key, default) ==
    IF key \in DOMAIN data THEN data[key] ELSE default

(***************************************************************************)
(* Strings.  A Python str is a TLA+ string; Chars gives the characters of  *)
(* the strings that the code takes apart (str.split, the cron fields).     *)
(***************************************************************************)
Chars(s) ==
    CASE s = "" -> <<>>
      [] s = "09:00" -> <<"0", "9", ":", "0", "0">>
      [] s = "09:30" -> <<"0", "9", ":", "3", "0">>
      [] s = "23:05" -> <<"2", "3", ":", "0", "5">>
      [] s = "17:00" -> <<"1", "7", ":", "0", "0">>
      [] s = "0930" -> <<"0", "9", "3", "0">>
      [] s = "9-17" -> <<"9", "-", "1", "7">>
      [] s = "0" -> <<"0">>
      [] s = "1" -> <<"1">>
      [] s = "2" -> <<"2">>
      [] s = "x" -> <<"x">>

DigitVal ==
    [c \in {"0", "1", "2", "3", "4", "5", "6", "7", "8", "9"} |->
        CASE c = "0" -> 0 [] c = "1" -> 1 [] c = "2" -> 2 [] c = "3" -> 3
          [] c = "4" -> 4 [] c = "5" -> 5 [] c = "6" -> 6 [] c = "7" -> 7
          [] c = "8" -> 8 [] c = "9" -> 9]

IsDigits(cs) == Len(cs) > 0 /\ \A i \in 1..Len(cs) : cs[i] \in DOMAIN DigitVal

RECURSIVE ParseNat(_)
ParseNat(cs) ==
    IF cs = <<>> THEN 0
    ELSE ParseNat(SubSeq(cs, 1, Len(cs) - 1)) * 10 + DigitVal[cs[Len(cs)]]

\* str.split(sep): the parts between the separators, at least one part.
RECURSIVE Split(_, _)
Split(cs, sep) ==
    IF \E i \in 1..Len(cs) : cs[i] = sep
    THEN LET i == CHOOSE k \in 1..Len(cs) :
                      cs[k] = sep /\ \A j \in 1..(k - 1) : cs[j] /= sep
         IN <<SubSeq(cs, 1, i - 1)>> \o Split(SubSeq(cs, i + 1, Len(cs)), sep)
    ELSE <<cs>>

(***************************************************************************)
(* APScheduler triggers.  IntervalTrigger(minutes=m) is <<"interval", m>>. *)
(* CronTrigger(hour=h, minute=m) compiles each field's expression: digits  *)
(* are one value, "a-b" is a range, and a value outside the field's range  *)
(* (hour 0..23, minute 0..59) or any other text raises ValueError.  A      *)
(* compiled field is the pair <<first, last>>.                             *)
(***************************************************************************)
CronField(cs, max) ==
    LET parts == Split(cs, "-")
    IN IF Len(parts) = 1 /\ IsDigits(parts[1]) /\ ParseNat(parts[1]) <= max
       THEN <<"ok", <<ParseNat(parts[1]), ParseNat(parts[1])>>>>
       ELSE IF /\ Len(parts) = 2 /\ IsDigits(parts[1]) /\ IsDigits(parts[2])
               /\ ParseNat(parts[1]) <= ParseNat(parts[2])
               /\ ParseNat(parts[2]) <= max
       THEN <<"ok", <<ParseNat(parts[1]), ParseNat(parts[2])>>>>
       ELSE <<"ValueError">>

CronTrigger(hour, minute) ==
    LET h == CronField(hour, 23)
        m == CronField(minute, 59)
    IN IF h[1] = "ok" /\ m[1] = "ok"
       THEN <<"ok", <<"cron", h[2], m[2]>>>>
       ELSE <<"ValueError">>

IntervalTrigger(minutes) == <<"interval", minutes>>

\* random.randint(a, b): any integer of a..b
RandInt(a, b) == a..b

(***************************************************************************)
(* State.                                                                  *)
(***************************************************************************)
VARIABLES
    tweetbooks,   \* rows of table tweetbooks: [id, name, description]
    tweets,       \* rows of table tweets
    settings,     \* rows of table settings
    seq,          \* sqlite_sequence: the AUTOINCREMENT counter of each table
    jobs,         \* the scheduler's job store: a set of [id, trigger]
    th,           \* each thread: [pc, op, data, loc, conns, changed]
    last,         \* the answer given since a request last arrived
    clock,        \* the store's CURRENT_TIMESTAMP
    restarts      \* process restarts so far

vars == <<tweetbooks, tweets, settings, seq, jobs, th, last, clock, restarts>>

store == <<tweetbooks, tweets, settings, seq>>

\* a thread: where it is (pc) in which handler (op), the handler's input
\* (data, a dict), its local variables (loc, a dict), the number of store
\* connections the operation has opened and not closed (conns), and whether
\* a step of the operation has changed the scheduler's job store (changed)
Idle ==
    [pc |-> "idle", op |-> "none", data |-> EmptyDict, loc |-> EmptyDict,
     conns |-> 0, changed |-> FALSE]

NoAnswer ==
    [thread |-> 0, op |-> "none", data |-> EmptyDict, loc |-> EmptyDict,
     resp |-> 0, conns |-> 0]

\* Thread t returns or raises: resp is the HTTP status (200 for a returned
\* tweet, 404 for None, when the worker thread answers), loc what is
\* returned with it, conns the connections the operation leaves open.
Return(t, op, data, loc, resp, conns) ==
    /\ th' = [th EXCEPT ![t] = Idle]
    /\ last' = [thread |-> t, op |-> op, data |-> data, loc |-> loc,
                resp |-> resp, conns |-> conns]

\* Thread t answers having closed, in this step, what it opened in this step
Answer(t, op, data, loc, resp) ==
    Return(t, op, data, loc, resp, th[t].conns)

Max(a, b) == IF a >= b THEN a ELSE b

(***************************************************************************)
(* init_db.  The tables are created if absent (an absent table is an empty *)
(* one here) and the two default rows are inserted with INSERT OR IGNORE,  *)
(* which skips a row that would break PRIMARY KEY or UNIQUE.               *)
(***************************************************************************)
DefaultTweetbook ==
    [id |-> 1, name |-> "Default",
     description |-> "Your default collection of tweets"]

\* INSERT ... (id, active_tweetbook_id) VALUES (1, 1): the column DEFAULTs
DefaultSettings ==
    [id |-> 1, notification_frequency |-> "hourly", active_tweetbook_id |-> 1,
     start_time |-> "09:00", end_time |-> "17:00", random_mode |-> 1]

InsertOrReplaceSettings(rows, row) ==
    {r \in rows : r.id /= row.id} \cup {row}
InsertSettingsAutoId(rows, row) ==
    IF rows = {}
    THEN {row}
    ELSE rows \cup {[row EXCEPT !.id = 1 + Cardinality(rows)]}
InsertOrIgnoreSettings(rows, row) ==
    IF \E r \in rows : r.id = row.id THEN rows ELSE rows \cup {row}

InsertOrIgnoreTweetbook(rows, row) ==
    IF \E r \in rows : r.id = row.id \/ r.name = row.name
    THEN rows
    ELSE rows \cup {row}

InitDb ==
    /\ th[MainThread].pc = "init_db"
    /\ tweetbooks' = InsertOrIgnoreTweetbook(tweetbooks, DefaultTweetbook)
    /\ settings' = InsertOrIgnoreSettings(settings, DefaultSettings)
    /\ seq' = IF tweetbooks' /= tweetbooks
              THEN [seq EXCEPT !.tweetbooks = Max(@, DefaultTweetbook.id)]
              ELSE seq
    /\ th' = [th EXCEPT ![MainThread].pc = "us_remove"]
    /\ UNCHANGED <<tweets, jobs, last, clock, restarts>>

(***************************************************************************)
(* update_scheduler, called by the main thread at startup and by           *)
(* update_settings.  Three accesses to shared state: remove_all_jobs, the  *)
(* SELECT of the settings row, and add_job.                                *)
(***************************************************************************)
IntervalJobId == "show_tweet"
CronJobIdOther == "show_tweet_cron"
CronJobId == "show_tweet"

\* the (low, high) pair handed to random.randint for a frequency
IntervalRangeSwapped(frequency) ==
    IF frequency = "hourly" THEN <<720, 1440>>
    ELSE IF frequency = "daily" THEN <<30, 90>>
    ELSE <<15, 180>>
IntervalRange(frequency) ==
    IF frequency = "hourly" THEN <<30, 90>>
    ELSE IF frequency = "daily" THEN <<720, 1440>>
    ELSE <<15, 180>>

\* What update_scheduler derives from the row it read, m being the outcome
\* of random.randint: <<"job", id, trigger>>, <<"nojob">> or <<"ValueError">>.
Derive(row, m) ==
    IF row.random_mode /= 0
    THEN <<"job", IntervalJobId, IntervalTrigger(m)>>
    ELSE IF row.notification_frequency = "hourly"
    THEN LET trig == CronTrigger(Chars("9-17"), Chars("0"))
         IN <<"job", CronJobId, trig[2]>>
    ELSE IF row.notification_frequency = "daily"
    THEN LET parts == Split(Chars(row.start_time), ":")
         IN IF Len(parts) /= 2
            THEN <<"ValueError">>
            ELSE LET trig == CronTrigger(parts[1], parts[2])
                 IN IF trig[1] = "ok"
                    THEN <<"job", CronJobId, trig[2]>>
                    ELSE <<"ValueError">>
    ELSE <<"nojob">>

\* Where a thread goes when update_scheduler returns or raises: the main
\* thread starts serving (or the import fails), update_settings closes its
\* connection and answers 200 (an exception is Flask's 500).  A return
\* passes conn.close() (l.190, and update_settings' own at l.358), a raise
\* passes neither.
AfterScheduler(t, raised) ==
    IF t = MainThread
    THEN /\ th' = [th EXCEPT ![t].pc = IF raised THEN "crashed" ELSE "serving",
                             ![t].loc = EmptyDict,
                             ![t].conns = IF raised THEN @ ELSE @ - 1]
         /\ last' = last
    ELSE Return(t, th[t].op, th[t].data, EmptyDict,
                IF raised THEN 500 ELSE 200,
                IF raised THEN th[t].conns ELSE th[t].conns - 2)

SchedRemove(t) ==
    /\ th[t].pc = "us_remove"
    /\ jobs' = {}
    /\ th' = [th EXCEPT ![t].pc = "us_select",
                        ![t].conns = @ + 1,
                        ![t].changed = @ \/ jobs /= {}]
    /\ UNCHANGED <<store, last, clock, restarts>>

SchedSelect(t) ==
    /\ th[t].pc = "us_select"
    /\ LET result == {r \in settings : r.id = 1}
       IN IF result = {}
          THEN AfterScheduler(t, FALSE)
          ELSE /\ \E row \in result :
                     th' = [th EXCEPT ![t].pc = "us_add",
                                      ![t].loc = [row |-> row]]
               /\ last' = last
    /\ UNCHANGED <<store, jobs, clock, restarts>>

\* scheduler.add_job(..., id=...) on a running scheduler: the job store
\* raises ConflictingIdError when it already holds a job of that id.
SchedAdd(t, m) ==
    /\ th[t].pc = "us_add"
    /\ LET row == th[t].loc.row
           range == IntervalRange(row.notification_frequency)
           d == Derive(row, m)
       IN /\ row.random_mode /= 0 => m \in RandInt(range[1], range[2])
          /\ IF d[1] = "job"
             THEN IF \E j \in jobs : j.id = d[2]
                  THEN /\ jobs' = jobs
                       /\ AfterScheduler(t, TRUE)
                  ELSE /\ jobs' = jobs \cup {[id |-> d[2], trigger |-> d[3]]}
                       /\ AfterScheduler(t, FALSE)
             ELSE /\ jobs' = jobs
                  /\ AfterScheduler(t, d[1] = "ValueError")
    /\ UNCHANGED <<store, clock, restarts>>

(***************************************************************************)
(* PUT /api/settings (update_settings).  The body's fields are read with   *)
(* data.get; a column is updated when its value is truthy (random_mode:    *)
(* when it is not None); one UPDATE ... WHERE id = 1 and its commit; then  *)
(* update_scheduler, only when some column was updated.                    *)
(***************************************************************************)
Ready(t) ==
    /\ t \in RequestThreads
    /\ th[MainThread].pc = "serving"
    /\ th[t].pc = "idle"

UpdateFieldsPresent(data) ==
    {f \in {"notification_frequency", "active_tweetbook_id", "start_time",
            "end_time", "random_mode"} : DataGet(data, f) /= PyNone}
UpdateFields(data) ==
    {f \in {"notification_frequency", "active_tweetbook_id", "start_time",
            "end_time"} : Truthy(DataGet(data, f))}
    \cup {f \in {"random_mode"} : DataGet(data, f) /= PyNone}

\* the row after UPDATE settings SET <update_fields> = <update_values>
ApplyUpdateResetting(row, data) ==
    LET uf == UpdateFields(data)
        val(f) == IF f \in uf THEN DataGet(data, f)[2] ELSE DefaultSettings[f]
    IN [id |-> row.id,
        notification_frequency |-> val("notification_frequency"),
        active_tweetbook_id |-> val("active_tweetbook_id"),
        start_time |-> val("start_time"),
        end_time |-> val("end_time"),
        random_mode |-> IF "random_mode" \in uf
                        THEN IF Truthy(DataGet(data, "random_mode")) THEN 1 ELSE 0
                        ELSE row.random_mode]
ApplyUpdate(row, data) ==
    LET uf == UpdateFields(data)
        val(f) == IF f \in uf THEN DataGet(data, f)[2] ELSE row[f]
    IN [id |-> row.id,
        notification_frequency |-> val("notification_frequency"),
        active_tweetbook_id |-> val("active_tweetbook_id"),
        start_time |-> val("start_time"),
        end_time |-> val("end_time"),
        random_mode |-> IF "random_mode" \in uf
                        THEN IF Truthy(DataGet(data, "random_mode")) THEN 1 ELSE 0
                        ELSE row.random_mode]

UpdateSettings(t, data) ==
    /\ Ready(t)
    /\ IF UpdateFields(data) /= {}
       THEN /\ settings' = {IF r.id = 1 THEN ApplyUpdate(r, data) ELSE r :
                               r \in settings}
            /\ th' = [th EXCEPT ![t] = [pc |-> "us_remove",
                                        op |-> "update_settings",
                                        data |-> data, loc |-> EmptyDict,
                                        conns |-> 1, changed |-> FALSE]]
            /\ last' = NoAnswer
       ELSE /\ settings' = settings
            /\ Answer(t, "update_settings", data, EmptyDict, 200)
    /\ UNCHANGED <<tweetbooks, tweets, seq, jobs, clock, restarts>>

(***************************************************************************)
(* POST /api/tweetbooks (create_tweetbook): one INSERT and its commit.     *)
(* UNIQUE(name) raises IntegrityError, answered 400.  The id is the next   *)
(* AUTOINCREMENT value, which sqlite_sequence never hands out twice.       *)
(***************************************************************************)
TweetbookNameTaken(rows, name) == \E r \in rows : r.name = name

CreateTweetbook(t, data) ==
    /\ Ready(t)
    /\ LET name == DataGet(data, "name")
           description == DataGetDefault(data, "description", PyStr(""))
           id == seq.tweetbooks + 1
       IN IF ~Truthy(name)
          THEN /\ Answer(t, "create_tweetbook", data, EmptyDict, 400)
               /\ UNCHANGED <<tweetbooks, seq>>
          ELSE IF TweetbookNameTaken(tweetbooks, name[2])
          THEN /\ Answer(t, "create_tweetbook", data, EmptyDict, 400)
               /\ UNCHANGED <<tweetbooks, seq>>
          ELSE /\ id <= MaxRows + 1
               /\ tweetbooks' = tweetbooks \cup
                     {[id |-> id, name |-> name[2],
                       description |-> description[2]]}
               /\ seq' = [seq EXCEPT !.tweetbooks = id]
               /\ Answer(t, "create_tweetbook", data, [id |-> id], 201)
    /\ UNCHANGED <<tweets, settings, jobs, clock, restarts>>

(***************************************************************************)
(* POST /api/tweets (save_tweet): tweet_id, content and author must be     *)
(* truthy; one INSERT and its commit; UNIQUE(tweet_id) raises              *)
(* IntegrityError, answered 400.  The connection never sets                *)
(* PRAGMA foreign_keys, so SQLite does not check tweetbook_id.             *)
(***************************************************************************)
\* the id of a new row of tweets: INTEGER PRIMARY KEY AUTOINCREMENT takes
\* one more than the largest id the table ever held (sqlite_sequence)
NextTweetIdReusing(rows, counter) ==
    1 + Cardinality({i \in 1..counter : \E r \in rows : r.id >= i})
NextTweetId(rows, counter) == counter + 1

TweetIdTakenInTweetbook(rows, tweet_id, tweetbook_id) ==
    \E r \in rows : r.tweet_id = tweet_id /\ r.tweetbook_id = tweetbook_id
TweetIdTaken(rows, tweet_id, tweetbook_id) ==
    \E r \in rows : r.tweet_id = tweet_id

SaveTweet(t, data) ==
    /\ Ready(t)
    /\ LET tweet_id == DataGet(data, "tweet_id")
           content == DataGet(data, "content")
           author == DataGet(data, "author")
           tweetbook_id == DataGetDefault(data, "tweetbook_id", PyInt(1))
           id == NextTweetId(tweets, seq.tweets)
       IN IF ~(Truthy(tweet_id) /\ Truthy(content) /\ Truthy(author))
          THEN /\ Answer(t, "save_tweet", data, EmptyDict, 400)
               /\ UNCHANGED <<tweets, seq>>
          ELSE IF TweetIdTaken(tweets, tweet_id[2], tweetbook_id[2])
          THEN /\ Answer(t, "save_tweet", data, EmptyDict, 400)
               /\ UNCHANGED <<tweets, seq>>
          ELSE /\ id <= MaxRows
               /\ tweets' = tweets \cup
                     {[id |-> id, tweet_id |-> tweet_id[2],
                       content |-> content[2], author |-> author[2],
                       tweetbook_id |-> tweetbook_id[2],
                       created_at |-> clock, last_shown |-> <<>>]}
               /\ seq' = [seq EXCEPT !.tweets = id]
               /\ Answer(t, "save_tweet", data, [id |-> id], 201)
    /\ UNCHANGED <<tweetbooks, settings, jobs, clock, restarts>>

(***************************************************************************)
(* DELETE /api/tweets/<id> (delete_tweet): one DELETE and its commit; 200  *)
(* when a row went, 404 otherwise.                                         *)
(***************************************************************************)
DeleteTweet(t, tweet_id) ==
    /\ Ready(t)
    /\ tweets' = {r \in tweets : r.id /= tweet_id}
    /\ Answer(t, "delete_tweet", [tweet_id |-> PyInt(tweet_id)], EmptyDict,
              IF tweets' /= tweets THEN 200 ELSE 404)
    /\ UNCHANGED <<tweetbooks, settings, seq, jobs, clock, restarts>>

(***************************************************************************)
(* get_random_tweet(tweetbook_id): a SELECT ... ORDER BY RANDOM() LIMIT 1, *)
(* filtered by tweetbook_id when the argument is truthy; then, when a row  *)
(* came back, an UPDATE of its last_shown and the commit.  The SELECT and  *)
(* the UPDATE are two statements: other threads may run in between.        *)
(* GET /api/tweets/random (get_random_tweet_endpoint) passes the query     *)
(* parameter, converted with int() when it is a non-empty string.          *)
(***************************************************************************)
CandidatesIgnoringFilter(tweetbook_id) == tweets
Candidates(tweetbook_id) ==
    IF Truthy(tweetbook_id)
    THEN {r \in tweets : r.tweetbook_id = tweetbook_id[2]}
    ELSE tweets

\* int(s): the digits' value; ValueError for any other text
IntOf(s) ==
    IF IsDigits(Chars(s)) THEN <<"ok", ParseNat(Chars(s))>> ELSE <<"ValueError">>

RandomTweetEndpoint(t, args) ==
    /\ Ready(t)
    /\ LET arg == DataGet(args, "tweetbook_id")
       IN IF Truthy(arg) /\ IntOf(arg[2])[1] = "ValueError"
          THEN Answer(t, "get_random_tweet_endpoint", args, EmptyDict, 400)
          ELSE /\ th' = [th EXCEPT ![t] =
                            [pc |-> "grt_select",
                             op |-> "get_random_tweet_endpoint",
                             data |-> args,
                             loc |-> [tweetbook_id |->
                                         IF Truthy(arg)
                                         THEN PyInt(IntOf(arg[2])[2])
                                         ELSE arg],
                             conns |-> 1, changed |-> FALSE]]
               /\ last' = NoAnswer
    /\ UNCHANGED <<store, jobs, clock, restarts>>

GrtSelect(t) ==
    /\ th[t].pc = "grt_select"
    /\ LET found == Candidates(th[t].loc.tweetbook_id)
       IN IF found = {}
          THEN Return(t, th[t].op, th[t].data, th[t].loc, 404,
                      IF th[t].op = "show_tweet_notification"
                      THEN th[t].conns - 2
                      ELSE th[t].conns - 1)
          ELSE /\ \E tweet \in found :
                     th' = [th EXCEPT
                               ![t].pc = "grt_update",
                               ![t].loc = [tweetbook_id |-> th[t].loc.tweetbook_id,
                                           tweet |-> [id |-> tweet.id,
                                                      tweet_id |-> tweet.tweet_id,
                                                      content |-> tweet.content,
                                                      author |-> tweet.author]]]
               /\ last' = last
    /\ UNCHANGED <<store, jobs, clock, restarts>>

GrtUpdateEveryRow(t) ==
    /\ th[t].pc = "grt_update"
    /\ tweets' = {[r EXCEPT !.last_shown = <<clock>>] : r \in tweets}
    /\ Answer(t, th[t].op, th[t].data, th[t].loc, 200)
    /\ UNCHANGED <<tweetbooks, settings, seq, jobs, clock, restarts>>
GrtUpdate(t) ==
    /\ th[t].pc = "grt_update"
    /\ tweets' = {IF r.id = th[t].loc.tweet.id
                  THEN [r EXCEPT !.last_shown = <<clock>>]
                  ELSE r : r \in tweets}
    /\ Answer(t, th[t].op, th[t].data, th[t].loc, 200)
    /\ UNCHANGED <<tweetbooks, settings, seq, jobs, clock, restarts>>

(***************************************************************************)
(* show_tweet_notification, run by the scheduler's worker thread when the  *)
(* job fires: a SELECT of active_tweetbook_id, then get_random_tweet.  The *)
(* job runs one instance at a time (max_instances is 1).                   *)
(***************************************************************************)
ShowTweetNotification ==
    /\ th[MainThread].pc = "serving"
    /\ th[JobThread].pc = "idle"
    /\ jobs /= {}
    /\ LET result == {r \in settings : r.id = 1}
       IN IF result = {}
          THEN Answer(JobThread, "show_tweet_notification", EmptyDict,
                      EmptyDict, 404)
          ELSE /\ \E row \in result :
                     th' = [th EXCEPT ![JobThread] =
                               [pc |-> "grt_select",
                                op |-> "show_tweet_notification",
                                data |-> EmptyDict,
                                loc |-> [tweetbook_id |->
                                            PyInt(row.active_tweetbook_id)],
                                conns |-> 2, changed |-> FALSE]]
               /\ last' = NoAnswer
    /\ UNCHANGED <<store, jobs, clock, restarts>>

(***************************************************************************)
(* The read-only routes.  GET /api/tweetbooks and                          *)
(* GET /api/tweets/tweetbook/<id> answer the rows of one SELECT as a list; *)
(* GET /api/settings answers dict(cursor.fetchone()) of the settings row   *)
(* joined with its tweetbook, and dict(None) raises TypeError (Flask's     *)
(* 500) before conn.close() when the join is empty.                        *)
(***************************************************************************)
\* fetchall() of a statement without ORDER BY: the rows in any order
FetchAll(rows) ==
    {s \in [1..Cardinality(rows) -> rows] :
        \A i, j \in DOMAIN s : i /= j => s[i] /= s[j]}

\* ORDER BY created_at DESC: rows of equal created_at in any order
OrderByCreatedAtDesc(s) ==
    \A i, j \in DOMAIN s : s[i].created_at > s[j].created_at => i < j

GetTweetbooks(t) ==
    /\ Ready(t)
    /\ \E rows \in FetchAll(tweetbooks) :
          Answer(t, "get_tweetbooks", EmptyDict, [tweetbooks |-> rows], 200)
    /\ UNCHANGED <<store, jobs, clock, restarts>>

GetTweetsByTweetbook(t, tweetbook_id) ==
    /\ Ready(t)
    /\ LET selected ==
               {[id |-> r.id, tweet_id |-> r.tweet_id, content |-> r.content,
                 author |-> r.author, created_at |-> r.created_at,
                 last_shown |-> r.last_shown] :
                   r \in {q \in tweets : q.tweetbook_id = tweetbook_id}}
       IN \E rows \in {s \in FetchAll(selected) : OrderByCreatedAtDesc(s)} :
             Answer(t, "get_tweets_by_tweetbook",
                    [tweetbook_id |-> PyInt(tweetbook_id)],
                    [tweets |-> rows], 200)
    /\ UNCHANGED <<store, jobs, clock, restarts>>

GetSettings(t) ==
    /\ Ready(t)
    /\ LET joined ==
               {[notification_frequency |-> r.notification_frequency,
                 start_time |-> r.start_time, end_time |-> r.end_time,
                 random_mode |-> r.random_mode,
                 active_tweetbook_id |-> r.active_tweetbook_id,
                 active_tweetbook_name |-> b.name] :
                   r \in {q \in settings : q.id = 1},
                   b \in {q \in tweetbooks :
                            \E r \in settings :
                               r.id = 1 /\ r.active_tweetbook_id = q.id}}
       IN IF joined = {}
          THEN Return(t, "get_settings", EmptyDict, EmptyDict, 500,
                      th[t].conns + 1)
          ELSE \E row \in joined :
                  Answer(t, "get_settings", EmptyDict, [settings |-> row], 200)
    /\ UNCHANGED <<store, jobs, clock, restarts>>

(***************************************************************************)
(* The environment: time passes; the process is restarted on its store     *)
(* (the scheduler and every thread start afresh, the store file stays).    *)
(***************************************************************************)
Tick ==
    /\ clock < MaxClock
    /\ clock' = clock + 1
    /\ UNCHANGED <<store, jobs, th, last, restarts>>

Restart ==
    /\ restarts < MaxRestarts
    /\ restarts' = restarts + 1
    /\ jobs' = {}
    /\ th' = [t \in AllThreads |->
                 IF t = MainThread
                 THEN [Idle EXCEPT !.pc = "init_db", !.op = "startup"]
                 ELSE Idle]
    /\ UNCHANGED <<store, last, clock>>

(***************************************************************************)
(* Initial state: the process starts on an empty store file, the main      *)
(* thread about to run init_db, the scheduler started and empty.           *)
(***************************************************************************)
Init ==
    /\ tweetbooks = {}
    /\ tweets = {}
    /\ settings = {}
    /\ seq = [tweetbooks |-> 0, tweets |-> 0]
    /\ jobs = {}
    /\ th = [t \in AllThreads |->
                IF t = MainThread
                THEN [Idle EXCEPT !.pc = "init_db", !.op = "startup"]
                ELSE Idle]
    /\ last = NoAnswer
    /\ clock = 0
    /\ restarts = 0

\* bodies: every function from a set of keys to the values offered per key
Bodies(keys, values) ==
    UNION {{b \in [ks -> UNION {values[k] : k \in ks}] :
               \A k \in ks : b[k] \in values[k]} : ks \in SUBSET keys}

\* every outcome of the three random.randint calls
AllDraws ==
    UNION {RandInt(IntervalRange(f)[1], IntervalRange(f)[2]) :
              f \in {"hourly", "daily", "custom"}}

\* the least and the greatest outcome of each call
EdgeDraws ==
    {IntervalRange(f)[i] : f \in {"hourly", "daily", "custom"}, i \in 1..2}

(***************************************************************************)
(* SpecSched: startup, then settings updates one at a time, over every     *)
(* outcome of the random draw.                                             *)
(***************************************************************************)
SchedValues ==
    [notification_frequency |->
         {PyStr("hourly"), PyStr("daily"), PyStr("custom"), PyStr("weekly")},
     start_time |-> {PyStr("09:30"), PyStr("0930")},
     random_mode |-> {PyBool(TRUE), PyBool(FALSE)}]

SchedBodies ==
    {b \in Bodies({"notification_frequency", "start_time", "random_mode"},
                  SchedValues) :
        {"notification_frequency", "random_mode"} \subseteq DOMAIN b}

NextSched ==
    \/ InitDb
    \/ \E t \in {MainThread, 1} : SchedRemove(t)
    \/ \E t \in {MainThread, 1} : SchedSelect(t)
    \/ \E t \in {MainThread, 1}, m \in AllDraws : SchedAdd(t, m)
    \/ \E data \in SchedBodies : UpdateSettings(1, data)

SpecSched == Init /\ [][NextSched]_vars

\* the main thread's steps from the start of the process to serving
Startup(draws) ==
    \/ InitDb
    \/ SchedRemove(MainThread)
    \/ SchedSelect(MainThread)
    \/ \E m \in draws : SchedAdd(MainThread, m)

\* one outcome of the draw, for the specifications that do not look at it
OneDraw == {IntervalRange("hourly")[1]}

(***************************************************************************)
(* SpecStore: startup, then tweetbooks and tweets created, saved and       *)
(* deleted by concurrent requests.                                         *)
(***************************************************************************)
TweetbookValues == [name |-> {PyStr(""), PyStr("Default"), PyStr("Jokes")}]

TweetbookBodies == Bodies({"name"}, TweetbookValues)

TweetValues ==
    [tweet_id |-> {PyStr("T1"), PyStr("T2")},
     content |-> {PyStr("hi")},
     author |-> {PyStr("a")},
     tweetbook_id |-> {PyInt(0), PyInt(2)}]

TweetBodies ==
    {b \in Bodies({"tweet_id", "content", "author", "tweetbook_id"}, TweetValues) :
        {"tweet_id", "content"} \subseteq DOMAIN b}

TweetRowIds == 1..(MaxRows + 1)

NextStore ==
    \/ Startup(OneDraw)
    \/ \E t \in RequestThreads, data \in TweetbookBodies : CreateTweetbook(t, data)
    \/ \E t \in RequestThreads, data \in TweetBodies : SaveTweet(t, data)
    \/ \E t \in RequestThreads, id \in TweetRowIds : DeleteTweet(t, id)

SpecStore == Init /\ [][NextStore]_vars

(***************************************************************************)
(* SpecConc: startup, then settings updates by concurrent requests.        *)
(***************************************************************************)
ConcValues ==
    [notification_frequency |-> {PyStr("daily")},
     random_mode |-> {PyBool(TRUE), PyBool(FALSE)}]

ConcBodies ==
    {b \in Bodies({"notification_frequency", "random_mode"}, ConcValues) :
        "notification_frequency" \in DOMAIN b}

\* the least outcome of each call
LeastDraws == {IntervalRange(f)[1] : f \in {"hourly", "daily", "custom"}}

NextConc ==
    \/ Startup(LeastDraws)
    \/ \E t \in RequestThreads, data \in ConcBodies : UpdateSettings(t, data)
    \/ \E t \in RequestThreads : SchedRemove(t)
    \/ \E t \in RequestThreads : SchedSelect(t)
    \/ \E t \in RequestThreads, m \in LeastDraws : SchedAdd(t, m)

SpecConc == Init /\ [][NextConc]_vars

(***************************************************************************)
(* SpecSettings: startup, then settings updates one at a time, each key    *)
(* of the body absent, falsy or truthy.                                    *)
(***************************************************************************)
SettingsValues ==
    [notification_frequency |-> {PyStr(""), PyStr("daily")},
     active_tweetbook_id |-> {PyInt(0), PyInt(2)},
     start_time |-> {PyStr(""), PyStr("09:30")},
     end_time |-> {PyStr(""), PyStr("23:05")},
     random_mode |-> {PyBool(FALSE), PyBool(TRUE)}]

SettingsBodies ==
    Bodies({"notification_frequency", "active_tweetbook_id", "start_time",
            "end_time", "random_mode"}, SettingsValues)

NextSettings ==
    \/ Startup(EdgeDraws)
    \/ \E data \in SettingsBodies : UpdateSettings(1, data)
    \/ SchedRemove(1)
    \/ SchedSelect(1)
    \/ \E m \in EdgeDraws : SchedAdd(1, m)

SpecSettings == Init /\ [][NextSettings]_vars

(***************************************************************************)
(* SpecRandom: startup, then tweets saved and drawn at random by           *)
(* concurrent requests.                                                    *)
(***************************************************************************)
RandomTweetbookBodies == {[name |-> PyStr("Jokes")]}

RandomTweetValues ==
    [tweet_id |-> {PyStr("T1"), PyStr("T2")},
     content |-> {PyStr("hi")},
     author |-> {PyStr("a")},
     tweetbook_id |-> {PyInt(0)}]

RandomTweetBodies ==
    {b \in Bodies({"tweet_id", "content", "author", "tweetbook_id"},
                  RandomTweetValues) :
        {"tweet_id", "content", "author"} \subseteq DOMAIN b}

RandomArgs ==
    Bodies({"tweetbook_id"},
           [tweetbook_id |-> {PyStr("0"), PyStr("1"), PyStr("2"), PyStr("x")}])

NextRandom ==
    \/ Startup(OneDraw)
    \/ \E t \in RequestThreads, data \in RandomTweetbookBodies :
          CreateTweetbook(t, data)
    \/ \E t \in RequestThreads, data \in RandomTweetBodies : SaveTweet(t, data)
    \/ \E t \in RequestThreads, args \in RandomArgs : RandomTweetEndpoint(t, args)
    \/ \E t \in RequestThreads : GrtSelect(t)
    \/ \E t \in RequestThreads : GrtUpdate(t)

SpecRandom == Init /\ [][NextRandom]_vars

(***************************************************************************)
(* SpecRestart: every operation, one request at a time beside the          *)
(* scheduler's worker, with the process restarted on its store.            *)
(***************************************************************************)
RestartSettingsBodies ==
    Bodies({"notification_frequency", "active_tweetbook_id"},
           [notification_frequency |-> {PyStr("custom")},
            active_tweetbook_id |-> {PyInt(2)}])

RestartTweetBodies ==
    {b \in RandomTweetBodies : b["tweet_id"] = PyStr("T1")}

RestartArgs == {EmptyDict}

RestartRowIds == {1}

NextRestart ==
    \/ Startup(EdgeDraws)
    \/ Restart
    \/ \E data \in RestartSettingsBodies : UpdateSettings(1, data)
    \/ SchedRemove(1)
    \/ SchedSelect(1)
    \/ \E m \in EdgeDraws : SchedAdd(1, m)
    \/ \E data \in RandomTweetbookBodies : CreateTweetbook(1, data)
    \/ \E data \in RestartTweetBodies : SaveTweet(1, data)
    \/ \E id \in RestartRowIds : DeleteTweet(1, id)
    \/ \E args \in RestartArgs : RandomTweetEndpoint(1, args)
    \/ ShowTweetNotification
    \/ \E t \in {1, JobThread} : GrtSelect(t)
    \/ \E t \in {1, JobThread} : GrtUpdate(t)
    \/ Tick

SpecRestart == Init /\ [][NextRestart]_vars

(***************************************************************************)
(* Claims.                                                                 *)
(***************************************************************************)
\* no update_scheduler call and no request is in progress
Quiet ==
    /\ th[MainThread].pc = "serving"
    /\ \A t \in RequestThreads : th[t].pc = "idle"

\* C3: after update_scheduler has completed, run alone, the registered job is
\* a function of the settings row (start_time a well-formed "HH:MM"):
\* random_mode true gives exactly one interval job of 30..90 minutes for
\* 'hourly', 720..1440 for 'daily' and 15..180 for any other frequency;
\* random_mode false gives exactly one cron job at minute 0 of hours 9..17 for
\* 'hourly', exactly one cron job at start_time's hour and minute for 'daily',
\* and no job for 'custom'.
C3_JobIsFunctionOfSettings ==
    Quiet =>
      \A row \in settings :
        row.start_time \in {"09:00", "09:30"} =>
          IF row.random_mode /= 0
          THEN /\ Cardinality(jobs) = 1
               /\ \A j \in jobs :
                    /\ j.trigger[1] = "interval"
                    /\ IF row.notification_frequency = "hourly"
                       THEN j.trigger[2] \in 30..90
                       ELSE IF row.notification_frequency = "daily"
                       THEN j.trigger[2] \in 720..1440
                       ELSE j.trigger[2] \in 15..180
          ELSE IF row.notification_frequency = "hourly"
          THEN /\ Cardinality(jobs) = 1
               /\ \A j \in jobs : j.trigger = <<"cron", <<9, 17>>, <<0, 0>>>>
          ELSE IF row.notification_frequency = "daily"
          THEN /\ Cardinality(jobs) = 1
               /\ \A j \in jobs :
                    j.trigger = IF row.start_time = "09:30"
                                THEN <<"cron", <<9, 9>>, <<30, 30>>>>
                                ELSE <<"cron", <<9, 9>>, <<0, 0>>>>
          ELSE row.notification_frequency = "custom" => jobs = {}

\* a settings update to daily, not random, start_time "09:30" has completed
\* and the job fires at 9:30
C3_Witness ==
    /\ Quiet
    /\ last.op = "update_settings" /\ last.resp = 200
    /\ \E row \in settings :
          /\ row.notification_frequency = "daily"
          /\ row.random_mode = 0
          /\ row.start_time = "09:30"
    /\ \E j \in jobs : j.trigger = <<"cron", <<9, 9>>, <<30, 30>>>>

\* C1: in every reachable state, also while PUT /api/settings requests run
\* concurrently, the scheduler holds at most one job and its id is
\* 'show_tweet'.
C1_AtMostOneJob ==
    /\ Cardinality(jobs) <= 1
    /\ \A j \in jobs : j.id = "show_tweet"

\* two update_scheduler calls ran concurrently and both reached add_job: the
\* second was refused (ConflictingIdError, answered 500), one job is held
C1_Witness ==
    /\ last.op = "update_settings" /\ last.resp = 500
    /\ Cardinality(jobs) = 1

\* a thread is between update_scheduler's remove_all_jobs and its return
InScheduler(t) == th[t].pc \in {"us_select", "us_add"}

\* C2: update_scheduler calls are serialized: no call removes the jobs while
\* another call, having removed them, has not yet added its job.
C2_Serialized ==
    \A t1, t2 \in AllThreads :
        t1 /= t2 => ~(InScheduler(t1) /\ InScheduler(t2))

\* the settings row's columns that a body may set
SettingsColumns ==
    {"notification_frequency", "active_tweetbook_id", "start_time", "end_time",
     "random_mode"}

\* C4: PUT /api/settings changes only the fields supplied in the body: every
\* column whose key the body does not hold keeps its value, and no row is
\* added or removed.
C4_UnsuppliedFieldsKept ==
    [][\A t \in RequestThreads :
          LET kept(data) ==
                  /\ {r.id : r \in settings'} = {r.id : r \in settings}
                  /\ \A r \in settings, q \in settings' :
                        r.id = q.id =>
                            \A f \in SettingsColumns \ DOMAIN data :
                                q[f] = r[f]
          IN /\ (th[t].pc = "idle" /\ th'[t].pc = "us_remove")
                    => kept(th'[t].data)
             /\ (/\ th[t].pc = "idle" /\ th'[t].pc = "idle"
                 /\ last'.thread = t /\ last'.op = "update_settings")
                    => kept(last'.data)]_vars

\* a body holding only random_mode = false was applied to a row whose other
\* columns had been changed before: they are still the changed ones
C4_Witness ==
    /\ last.op = "update_settings" /\ last.resp = 200
    /\ DOMAIN last.data = {"random_mode"}
    /\ last.data["random_mode"] = PyBool(FALSE)
    /\ \E r \in settings :
          /\ r.random_mode = 0
          /\ r.notification_frequency = "daily"
          /\ r.active_tweetbook_id = 2
          /\ r.start_time = "09:30"
          /\ r.end_time = "23:05"

\* the value a column holds when a Python value is written to it
Stored(f, v) == IF f = "random_mode" THEN (IF v[2] THEN 1 ELSE 0) ELSE v[2]

\* C5: PUT /api/settings applies every field the caller supplied, by presence
\* and not by truthiness: after the UPDATE each supplied key's column holds
\* the supplied value, also when it is false, 0 or the empty string.
C5_SuppliedFieldsApplied ==
    [][\A t \in RequestThreads :
          LET applied(data) ==
                  \A q \in settings' :
                      \A f \in DOMAIN data : q[f] = Stored(f, data[f])
          IN /\ (th[t].pc = "idle" /\ th'[t].pc = "us_remove")
                    => applied(th'[t].data)
             /\ (/\ th[t].pc = "idle" /\ th'[t].pc = "idle"
                 /\ last'.thread = t /\ last'.op = "update_settings")
                    => applied(last'.data)]_vars

\* this step, thread t answered a request to handler op
Answered(t, op) == last' /= last /\ last'.thread = t /\ last'.op = op

\* C6: after any interleaving of create-tweetbook, save-tweet and
\* delete-tweet requests no two Tweetbooks share a name and no two Tweets
\* share a tweet_id, whatever their tweetbook; a create or save whose name or
\* tweet_id already exists answers 400 and leaves the store unchanged, and
\* one whose key is new (and whose required fields are given) succeeds, so of
\* two requests with the same key exactly one succeeds.
C6_UniqueKeys ==
    /\ [](/\ \A a, b \in tweetbooks : a.name = b.name => a = b
          /\ \A a, b \in tweets : a.tweet_id = b.tweet_id => a = b)
    /\ [][\A t \in RequestThreads :
             /\ (/\ Answered(t, "create_tweetbook")
                 /\ "name" \in DOMAIN last'.data
                 /\ \E r \in tweetbooks : r.name = last'.data["name"][2])
                    => (last'.resp = 400 /\ store' = store)
             /\ (/\ Answered(t, "save_tweet")
                 /\ "tweet_id" \in DOMAIN last'.data
                 /\ \E r \in tweets : r.tweet_id = last'.data["tweet_id"][2])
                    => (last'.resp = 400 /\ store' = store)
             /\ (/\ Answered(t, "create_tweetbook")
                 /\ "name" \in DOMAIN last'.data
                 /\ last'.data["name"][2] /= ""
                 /\ ~\E r \in tweetbooks : r.name = last'.data["name"][2])
                    => /\ last'.resp = 201
                       /\ \E r \in tweetbooks' :
                             r.name = last'.data["name"][2]
             /\ (/\ Answered(t, "save_tweet")
                 /\ {"tweet_id", "content", "author"}
                        \subseteq DOMAIN last'.data
                 /\ ~\E r \in tweets :
                        r.tweet_id = last'.data["tweet_id"][2])
                    => /\ last'.resp = 201
                       /\ \E r \in tweets' :
                             r.tweet_id = last'.data["tweet_id"][2]]_vars

\* a complete save was refused because its tweet_id is held by a Tweet of
\* another tweetbook
C6_Witness ==
    /\ last.op = "save_tweet" /\ last.resp = 400
    /\ {"tweet_id", "content", "author", "tweetbook_id"} \subseteq DOMAIN last.data
    /\ \E r \in tweets :
          /\ r.tweet_id = last.data["tweet_id"][2]
          /\ r.tweetbook_id /= last.data["tweetbook_id"][2]

\* this step is init_db run by the main thread
InitDbStep == th[MainThread].pc = "init_db" /\ th'[MainThread].pc = "us_remove"

\* C7: init_db is idempotent: run again on a store that an earlier init_db
\* produced (one that holds a settings row, which only init_db inserts and
\* nothing deletes), whatever requests changed since, it leaves every row
\* unchanged;
\* run twice on an empty store it yields exactly one Tweetbook, id 1 named
\* 'Default', and exactly one Settings row, id 1.
C7_InitDbIdempotent ==
    /\ [][(InitDbStep /\ settings /= {}) => store' = store]_vars
    /\ []((/\ restarts >= 1
           /\ th[MainThread].pc = "us_remove"
           /\ seq = [tweetbooks |-> 1, tweets |-> 0])
             => /\ Cardinality(tweetbooks) = 1
                /\ \A r \in tweetbooks : r.id = 1 /\ r.name = "Default"
                /\ Cardinality(settings) = 1
                /\ \A r \in settings : r.id = 1)

\* init_db has just run again on a store whose settings row, tweetbooks and
\* tweets were changed by requests since the first run
C7_Witness ==
    /\ restarts >= 1
    /\ th[MainThread].pc = "us_remove"
    /\ \E r \in settings :
          r.notification_frequency = "custom" /\ r.active_tweetbook_id = 2
    /\ Cardinality(tweetbooks) = 2
    /\ \E r \in tweets : r.last_shown /= <<>>

\* the settings table holds exactly one row, id 1, and Tweetbook 1 exists
SingletonSettings ==
    /\ Cardinality(settings) = 1
    /\ \A r \in settings : r.id = 1
    /\ \E r \in tweetbooks : r.id = 1

\* C8: in every state after startup (init_db has run in this process),
\* through any sequence of requests and scheduler firings, the settings
\* table holds exactly one row, its id is 1, and the Tweetbook with id 1
\* exists; once true this stays true, across a restart too.
C8_SingletonSettings ==
    /\ [](th[MainThread].pc /= "init_db" => SingletonSettings)
    /\ [][SingletonSettings => SingletonSettings']_vars

\* after a restart, a settings update and a tweetbook creation, the job has
\* fired and shown a tweet
C8_Witness ==
    /\ restarts >= 1
    /\ last.op = "show_tweet_notification" /\ last.resp = 200
    /\ \E r \in settings : r.active_tweetbook_id = 2
    /\ Cardinality(tweetbooks) = 2

\* the integer a query parameter's text stands for
QueryInt(s) == CASE s = "0" -> 0 [] s = "1" -> 1 [] s = "2" -> 2

\* C9: for every supplied tweetbook id, 0 included, whose Tweetbook holds a
\* Tweet, get_random_tweet returns a Tweet of that tweetbook, and after the
\* call its last_shown is non-null and not earlier than before.
C9_ReturnsTweetOfTweetbook ==
    [][\A t \in RequestThreads :
          (/\ Answered(t, "get_random_tweet_endpoint")
           /\ "tweetbook_id" \in DOMAIN last'.data
           /\ last'.data["tweetbook_id"][2] \in {"0", "1", "2"}
           /\ \E r \in tweets :
                 r.tweetbook_id = QueryInt(last'.data["tweetbook_id"][2]))
             => /\ last'.resp = 200
                /\ \A q \in tweets' :
                      q.id = last'.loc.tweet.id =>
                          /\ q.tweetbook_id =
                                 QueryInt(last'.data["tweetbook_id"][2])
                          /\ q.last_shown /= <<>>
                          /\ \A r \in tweets :
                                (r.id = q.id /\ r.last_shown /= <<>>)
                                    => r.last_shown[1] <= q.last_shown[1]]_vars

\* this step is get_random_tweet's SELECT by thread t
GrtSelectStep(t) == th[t].pc = "grt_select" /\ th'[t].pc /= "grt_select"

\* C10: get_random_tweet called with the id of a Tweetbook that holds no
\* Tweet returns None (the endpoint answers 404) and changes no row,
\* whatever Tweets other Tweetbooks hold.
C10_EmptyTweetbookNoWrite ==
    [][\A t \in RequestThreads :
          (/\ GrtSelectStep(t)
           /\ th[t].loc.tweetbook_id[1] = "int"
           /\ \E b \in tweetbooks : b.id = th[t].loc.tweetbook_id[2]
           /\ ~\E r \in tweets : r.tweetbook_id = th[t].loc.tweetbook_id[2])
             => /\ last'.thread = t /\ last'.resp = 404
                /\ th'[t] = Idle
                /\ store' = store]_vars

\* the tweets are in other tweetbooks, the Tweetbook asked for exists and is
\* empty, and the answer was 404
C10_Witness ==
    /\ last.op = "get_random_tweet_endpoint" /\ last.resp = 404
    /\ last.loc = [tweetbook_id |-> PyInt(2)]
    /\ \E b \in tweetbooks : b.id = 2
    /\ \E r \in tweets : r.last_shown /= <<>>
    /\ ~\E r \in tweets : r.tweetbook_id = 2

(***************************************************************************)
(* SpecDelete: startup, then tweets saved, deleted and listed by           *)
(* concurrent requests.                                                    *)
(***************************************************************************)
ListedTweetbooks == {0, 1}

NextDelete ==
    \/ Startup(OneDraw)
    \/ \E t \in RequestThreads, data \in RandomTweetBodies : SaveTweet(t, data)
    \/ \E t \in RequestThreads, id \in TweetRowIds : DeleteTweet(t, id)
    \/ \E t \in RequestThreads, id \in ListedTweetbooks :
          GetTweetsByTweetbook(t, id)
    \/ Tick

SpecDelete == Init /\ [][NextDelete]_vars

\* the ids of the rows of a listing
ListedIds(rows) == {rows[i].id : i \in DOMAIN rows}

\* C11: DELETE /api/tweets/{id} answers 200 exactly when a Tweet with that
\* id existed, and then removes it and nothing else, and 404 otherwise; an
\* id that was handed out and is gone never comes back, whatever is saved
\* later, so every later delete of it answers 404; and a listing of a
\* Tweetbook holds exactly the Tweets stored in it, so never a deleted one.
C11_DeleteOnce ==
    /\ [](\A r \in tweets : r.id \in 1..seq.tweets)
    /\ [][/\ \A t \in RequestThreads :
                Answered(t, "delete_tweet") =>
                    LET id == last'.data["tweet_id"][2]
                    IN /\ last'.resp \in {200, 404}
                       /\ last'.resp = 200 <=> \E r \in tweets : r.id = id
                       /\ tweets' = {r \in tweets : r.id /= id}
          /\ \A i \in 1..seq.tweets :
                (~\E r \in tweets : r.id = i) => (~\E r \in tweets' : r.id = i)
          /\ \A t \in RequestThreads :
                Answered(t, "get_tweets_by_tweetbook") =>
                    ListedIds(last'.loc.tweets) =
                        {r.id : r \in {q \in tweets :
                            q.tweetbook_id = last'.data["tweetbook_id"][2]}}
         ]_vars

\* Tweet 1 was deleted, a later save got id 2, and a delete of id 1 was
\* answered 404
C11_Witness ==
    /\ last.op = "delete_tweet" /\ last.resp = 404
    /\ last.data["tweet_id"] = PyInt(1)
    /\ seq.tweets = 2
    /\ \E r \in tweets : r.id = 2
    /\ ~\E r \in tweets : r.id = 1

\* C12: in every state, every Tweet's tweetbook_id and the Settings row's
\* active_tweetbook_id name an existing Tweetbook (a save or a settings
\* update that supplies the id of no Tweetbook is not stored).
C12_ReferencesExist ==
    /\ \A r \in tweets : \E b \in tweetbooks : b.id = r.tweetbook_id
    /\ \A r \in settings : \E b \in tweetbooks : b.id = r.active_tweetbook_id

\* C13: whenever get_random_tweet, show_tweet_notification,
\* update_scheduler or a route handler has returned or raised, it has
\* closed every store connection it opened: the answer just given left no
\* connection open, and neither did the update_scheduler call of startup.
C13_ConnectionsClosed ==
    /\ last.conns = 0
    /\ th[MainThread].pc \in {"serving", "crashed"} => th[MainThread].conns = 0

\* C14: a request that ends in an error (a 4xx answer or an unhandled
\* fault, answered 500) never changes the scheduler's state: no step of it
\* has changed the set of scheduled jobs, so the jobs after it are the jobs
\* before it.
C14_ErrorsKeepJobs ==
    [][\A t \in RequestThreads :
          (last' /= last /\ last'.thread = t /\ last'.resp >= 400)
             => (~th[t].changed /\ jobs' = jobs)]_vars

\* C19: in every state where no PUT /api/settings request and no
\* update_scheduler call is in progress, whatever concurrent settings
\* updates came before, the registered job is the one derived from the
\* Settings row as stored now: an interval job when the row's random_mode is
\* true, the cron job of the row's frequency and start_time when it is
\* false, never the job of an overwritten row.
C19_JobOfCurrentRow ==
    Quiet =>
      \A row \in settings :
        /\ row.random_mode /= 0 =>
              \E j \in jobs : jobs = {j} /\ j.trigger[1] = "interval"
        /\ (row.random_mode = 0 /\ row.start_time = "09:00"
                /\ row.notification_frequency \in {"hourly", "daily"}) =>
              \E j \in jobs :
                 /\ jobs = {j}
                 /\ j.trigger = IF row.notification_frequency = "hourly"
                                THEN <<"cron", <<9, 17>>, <<0, 0>>>>
                                ELSE <<"cron", <<9, 9>>, <<0, 0>>>>

(***************************************************************************)
(* SpecGet: startup, then the active tweetbook set, tweetbooks created     *)
(* and the settings and the tweetbooks read by concurrent requests.        *)
(***************************************************************************)
GetSettingsBodies ==
    Bodies({"active_tweetbook_id"},
           [active_tweetbook_id |-> {PyInt(1), PyInt(2)}])

NextGet ==
    \/ Startup(OneDraw)
    \/ \E t \in RequestThreads, data \in GetSettingsBodies :
          UpdateSettings(t, data)
    \/ \E t \in RequestThreads : SchedRemove(t)
    \/ \E t \in RequestThreads : SchedSelect(t)
    \/ \E t \in RequestThreads, m \in OneDraw : SchedAdd(t, m)
    \/ \E t \in RequestThreads, data \in RandomTweetbookBodies :
          CreateTweetbook(t, data)
    \/ \E t \in RequestThreads : GetSettings(t)
    \/ \E t \in RequestThreads : GetTweetbooks(t)

SpecGet == Init /\ [][NextGet]_vars

\* C15: GET /api/settings answers the Settings row joined with the active
\* Tweetbook's name when both exist, and a NotFound error (404), not an
\* unhandled fault, when the row's active_tweetbook_id names no Tweetbook.
C15_GetSettingsNotFound ==
    [][\A t \in RequestThreads :
          Answered(t, "get_settings") =>
              \A row \in settings :
                 IF \E b \in tweetbooks : b.id = row.active_tweetbook_id
                 THEN /\ last'.resp = 200
                      /\ \E b \in tweetbooks :
                            /\ b.id = row.active_tweetbook_id
                            /\ last'.loc.settings.active_tweetbook_name = b.name
                      /\ \A f \in SettingsColumns :
                            last'.loc.settings[f] = row[f]
                 ELSE last'.resp = 404]_vars

\* this step, thread t's PUT /api/settings invokes update_scheduler
InvokesScheduler(t) == th[t].pc = "idle" /\ th'[t].pc = "us_remove"

\* this step, thread t's PUT /api/settings answers without having invoked
\* update_scheduler
AnswersUninvoked(t) == Answered(t, "update_settings") /\ th[t].pc = "idle"

Blank(v) == (v[1] = "str" /\ v[2] = "") \/ (v[1] = "int" /\ v[2] = 0)

\* the body supplies a value that update_settings writes: a non-empty,
\* non-zero value of one of the four plain columns, or any random_mode
Writes(data) ==
    \/ \E f \in SettingsColumns \ {"random_mode"} :
          f \in DOMAIN data /\ ~Blank(data[f])
    \/ "random_mode" \in DOMAIN data

C17_FiringShowsActiveTweet ==
    [][/\ (th[JobThread].pc = "idle" /\ th'[JobThread].pc = "grt_select") =>
             \A row \in settings :
                th'[JobThread].loc.tweetbook_id = PyInt(row.active_tweetbook_id)
       /\ (GrtSelectStep(JobThread) /\ restarts' = restarts) =>
             IF \E r \in tweets :
                   r.tweetbook_id = th[JobThread].loc.tweetbook_id[2]
             THEN /\ th'[JobThread].pc = "grt_update"
                  /\ \E r \in tweets :
                        /\ r.id = th'[JobThread].loc.tweet.id
                        /\ r.tweetbook_id = th[JobThread].loc.tweetbook_id[2]
                  /\ store' = store
             ELSE /\ last'.op = "show_tweet_notification"
                  /\ last'.resp = 404
                  /\ store' = store
       /\ (/\ th[JobThread].pc = "grt_update"
           /\ th'[JobThread].pc = "idle"
           /\ restarts' = restarts) =>
             /\ last'.op = "show_tweet_notification" /\ last'.resp = 200
             /\ last'.loc.tweet = th[JobThread].loc.tweet
             /\ \E q \in tweets' :
                   /\ q.id = last'.loc.tweet.id
                   /\ q.tweetbook_id = last'.loc.tweetbook_id[2]
                   /\ q.last_shown = <<clock>>
      ]_vars

(***************************************************************************)
(* SpecShown: startup, then every route that reads or writes tweets, a     *)
(* tweetbook created and the settings updated, one request at a time       *)
(* beside a second thread's random draws, while time passes.               *)
(***************************************************************************)
ShownSettingsBodies == {[random_mode |-> PyBool(FALSE)]}

ShownArgs == {EmptyDict}

ShownTweetBodies ==
    {b \in RandomTweetBodies : "tweetbook_id" \notin DOMAIN b}

\* the request threads that draw a tweet, thread 1 sending every other
\* request as well
ShownThreads == {1, 2}

NextShown ==
    \/ Startup(OneDraw)
    \/ \E data \in ShownSettingsBodies : UpdateSettings(1, data)
    \/ SchedRemove(1)
    \/ SchedSelect(1)
    \/ \E m \in OneDraw : SchedAdd(1, m)
    \/ \E data \in RandomTweetbookBodies : CreateTweetbook(1, data)
    \/ \E data \in ShownTweetBodies : SaveTweet(1, data)
    \/ \E id \in RestartRowIds : DeleteTweet(1, id)
    \/ GetTweetsByTweetbook(1, 1)
    \/ GetTweetbooks(1)
    \/ \E t \in ShownThreads, args \in ShownArgs : RandomTweetEndpoint(t, args)
    \/ \E t \in ShownThreads : GrtSelect(t)
    \/ \E t \in ShownThreads : GrtUpdate(t)
    \/ Tick

SpecShown == Init /\ [][NextShown]_vars

\* the Tweets whose last_shown this step changes
Reshown == {r \in tweets : \E q \in tweets' :
               q.id = r.id /\ q.last_shown /= r.last_shown}

\* C18: a Tweet's last_shown changes only in the step where get_random_tweet
\* writes it for the Tweet it selected: every other step (save, delete,
\* list, create-tweetbook, settings) leaves the last_shown of every stored
\* Tweet unchanged, a newly saved Tweet has last_shown null, and one
\* get_random_tweet call changes the last_shown of at most one Tweet.
C18_LastShownFrame ==
    [][/\ \A r \in Reshown :
             \E t \in AllThreads :
                /\ th[t].pc = "grt_update"
                /\ th'[t].pc = "idle"
                /\ th[t].loc.tweet.id = r.id
       /\ \A q \in tweets' :
             (~\E r \in tweets : r.id = q.id) => q.last_shown = <<>>
       /\ Cardinality(Reshown) <= 1
      ]_vars

\* a Tweet was shown, a second Tweet saved after it is still unshown, and a
\* listing was answered
C18_Witness ==
    /\ last.op = "get_tweets_by_tweetbook"
    /\ Len(last.loc.tweets) = 2
    /\ \E r \in tweets : r.last_shown /= <<>>
    /\ \E r \in tweets : r.last_shown = <<>>

\* C20: whenever get_random_tweet returns a Tweet, that Tweet was in the
\* store when last_shown was written (the UPDATE changed exactly one row):
\* no concurrent DELETE /api/tweets/{id} removes it between the selection
\* and the update.
C20_SelectionUpdateAtomic ==
    [][\A t \in AllThreads :
          (/\ th[t].pc = "grt_update"
           /\ th'[t].pc = "idle"
           /\ restarts' = restarts) =>
              Cardinality({r \in tweets : r.id = th[t].loc.tweet.id}) = 1]_vars

=============================================================================
